---- MODULE Spec2Model ----
(***************************************************************************)
(* Model of the ledger engine of src/main.rs: process_transactions folds   *)
(* an ordered log of Transaction records into per-client Accounts.         *)
(*                                                                         *)
(* Amounts are f32 in the source.  They are modelled as integers: a whole  *)
(* number of the smallest unit, in the range where f32 addition and        *)
(* subtraction are exact.  Option<f32> is modelled as a set with at most   *)
(* one element (None = {}, Some(x) = {x}).  Vec<u32> is a sequence and     *)
(* HashMap<K, V> a function whose DOMAIN is the set of keys.               *)
(***************************************************************************)
EXTENDS Integers, Sequences, FiniteSets, TLC

\* Bounds of the model: the largest amount of a record and the length of the
\* input.  Records name one of two clients and one of two transaction ids.
MaxAmount == 2
MaxLen == 5

Clients == {0, 1}
TxIds == {0, 1}
Amounts == 1..MaxAmount

VARIABLES
    accounts,                \* HashMap<u16, Account> of process_transactions
    processed_transactions,  \* HashMap<u32, Transaction> of process_transactions
    transaction,             \* the record the loop processed last
    before,                  \* history: the two maps as they were before that record
    n,                       \* number of records of the input consumed so far
    applied,                 \* history: per client, the sums the records moved
    solo,                    \* history: per client c, the run over c's records only
    without,                 \* history: the run that omits the first ignored withdrawal
    seen,                    \* history: the clients named by the records consumed
    closed                   \* history: <<client, tx>> of the disputes resolved or charged back

vars ==
    <<accounts, processed_transactions, transaction, before, n, applied, solo, without,
      seen, closed>>

(***************************************************************************)
(* Data                                                                    *)
(***************************************************************************)
Some(x) == {x}
None == {}
unwrap(o) == CHOOSE x \in o : TRUE

Deposit == "deposit"
Withdrawal == "withdrawal"
Dispute == "dispute"
Resolve == "resolve"
Chargeback == "chargeback"

TransactionType == {Deposit, Withdrawal, Dispute, Resolve, Chargeback}

Transaction(ty, c, t, a) ==
    [transaction_type |-> ty, client |-> c, tx |-> t, amount |-> a]

\* The value of `transaction` before the loop has taken its first record.
NoTransaction == Transaction("none", 0, 0, None)

\* A variant of the literal below with one plausible slip.
NewAccount_frozen ==
    [disputed_transactions |-> <<>>, frozen |-> TRUE, held |-> 0, available |-> 0]

\* The Account literal of accounts.entry(client_id).or_insert(...).
NewAccount ==
    [disputed_transactions |-> <<>>, frozen |-> FALSE, held |-> 0, available |-> 0]

\* Vec::contains and Vec::retain(|x| x != &transaction_id)
contains(v, x) == \E i \in 1..Len(v) : v[i] = x
retain_ne(v, x) == SelectSeq(v, LAMBDA y : y # x)

(***************************************************************************)
(* impl Account                                                            *)
(***************************************************************************)
\* Variants of the methods below, each with one plausible slip.
resolve_without_credit(self, transaction_id, amount) ==
    IF contains(self.disputed_transactions, transaction_id)
    THEN [self EXCEPT !.disputed_transactions = retain_ne(@, transaction_id),
                      !.held = @ - amount]
    ELSE self

resolve_unguarded(self, transaction_id, amount) ==
    [self EXCEPT !.disputed_transactions = retain_ne(@, transaction_id),
                 !.held = @ - amount,
                 !.available = @ + amount]

resolve_keeps_hold(self, transaction_id, amount) ==
    IF contains(self.disputed_transactions, transaction_id)
    THEN [self EXCEPT !.disputed_transactions = retain_ne(@, transaction_id),
                      !.available = @ + amount]
    ELSE self

chargeback_unguarded(self, transaction_id, amount) ==
    [self EXCEPT !.disputed_transactions = retain_ne(@, transaction_id),
                 !.held = @ - amount,
                 !.frozen = TRUE]

chargeback_from_available(self, transaction_id, amount) ==
    IF contains(self.disputed_transactions, transaction_id)
    THEN [self EXCEPT !.disputed_transactions = retain_ne(@, transaction_id),
                      !.available = @ - amount,
                      !.frozen = TRUE]
    ELSE self

dispute_from_available(self, transaction_id, amount) ==
    [self EXCEPT !.disputed_transactions = Append(@, transaction_id),
                 !.held = @ + amount,
                 !.available = @ - amount]

resolve_keeps_tx(self, transaction_id, amount) ==
    IF contains(self.disputed_transactions, transaction_id)
    THEN [self EXCEPT !.held = @ - amount,
                      !.available = @ + amount]
    ELSE self

deposit_unguarded(self, amount) ==
    [self EXCEPT !.available = @ + amount]

dispute_blocked_when_frozen(self, transaction_id, amount) ==
    IF self.frozen
    THEN self
    ELSE [self EXCEPT !.disputed_transactions = Append(@, transaction_id),
                      !.held = @ + amount]

dispute_without_hold(self, transaction_id, amount) ==
    [self EXCEPT !.disputed_transactions = Append(@, transaction_id)]

deposit(self, amount) ==
    IF ~self.frozen
    THEN [self EXCEPT !.available = @ + amount]
    ELSE self

withdraw(self, amount) ==
    IF amount > self.available /\ ~self.frozen
    THEN self
    ELSE [self EXCEPT !.available = @ - amount]

dispute(self, transaction_id, amount) ==
    [self EXCEPT !.disputed_transactions = Append(@, transaction_id),
                 !.held = @ + amount]

resolve(self, transaction_id, amount) ==
    IF contains(self.disputed_transactions, transaction_id)
    THEN [self EXCEPT !.disputed_transactions = retain_ne(@, transaction_id),
                      !.held = @ - amount,
                      !.available = @ + amount]
    ELSE self

chargeback(self, transaction_id, amount) ==
    IF contains(self.disputed_transactions, transaction_id)
    THEN [self EXCEPT !.disputed_transactions = retain_ne(@, transaction_id),
                      !.held = @ - amount,
                      !.frozen = TRUE]
    ELSE self

total_funds(self) == self.available + self.held

(***************************************************************************)
(* process_transactions: one iteration of the loop, as a function of the   *)
(* two maps and the record.                                                *)
(***************************************************************************)
Ledger(accts, processed) ==
    [accounts |-> accts, processed_transactions |-> processed]

EmptyLedger == Ledger(<<>>, <<>>)

\* accounts.entry(client_id).or_insert(Account {...})
or_insert(accts, client_id) ==
    IF client_id \in DOMAIN accts THEN accts ELSE accts @@ (client_id :> NewAccount)

\* A variant of insert that forgets the other entries.
insert_clears(processed, key, value) == [k \in {key} |-> value]

\* processed_transactions.insert(transaction.tx, transaction)
insert(processed, key, value) ==
    [k \in DOMAIN processed \cup {key} |-> IF k = key THEN value ELSE processed[k]]

\* The guard of the three match arms on processed_transactions.get(&tx).
disputable(processed, t) ==
    /\ t \in DOMAIN processed
    /\ \/ processed[t].transaction_type = Deposit
       \/ processed[t].transaction_type = Withdrawal

\* A variant of process_one whose Dispute arm does not skip an unknown tx.
process_one_dispute_unchecked(L, tr) ==
    LET client_id == tr.client
        accts == or_insert(L.accounts, client_id)
        user_account == accts[client_id]
        processed == L.processed_transactions
        found == disputable(processed, tr.tx)
        set(a) == [accts EXCEPT ![client_id] = a]
    IN  CASE tr.transaction_type = Deposit ->
               Ledger(set(deposit(user_account, unwrap(tr.amount))),
                      insert(processed, tr.tx, tr))
          [] tr.transaction_type = Withdrawal ->
               Ledger(set(withdraw(user_account, unwrap(tr.amount))),
                      insert(processed, tr.tx, tr))
          [] tr.transaction_type = Dispute ->
               IF found
               THEN Ledger(set(dispute(user_account, processed[tr.tx].tx,
                                       unwrap(processed[tr.tx].amount))),
                           processed)
               ELSE Ledger(set(dispute(user_account, tr.tx, 0)), processed)
          [] tr.transaction_type = Resolve ->
               IF found
               THEN Ledger(set(resolve(user_account, processed[tr.tx].tx,
                                       unwrap(processed[tr.tx].amount))),
                           processed)
               ELSE Ledger(accts, processed)
          [] tr.transaction_type = Chargeback ->
               IF found
               THEN Ledger(set(chargeback(user_account, processed[tr.tx].tx,
                                          unwrap(processed[tr.tx].amount))),
                           processed)
               ELSE Ledger(accts, processed)

process_one(L, tr) ==
    LET client_id == tr.client
        accts == or_insert(L.accounts, client_id)
        user_account == accts[client_id]
        processed == L.processed_transactions
        found == disputable(processed, tr.tx)
        set(a) == [accts EXCEPT ![client_id] = a]
    IN  CASE tr.transaction_type = Deposit ->
               Ledger(set(deposit(user_account, unwrap(tr.amount))),
                      insert(processed, tr.tx, tr))
          [] tr.transaction_type = Withdrawal ->
               Ledger(set(withdraw(user_account, unwrap(tr.amount))),
                      insert(processed, tr.tx, tr))
          [] tr.transaction_type = Dispute ->
               IF found
               THEN Ledger(set(dispute(user_account, processed[tr.tx].tx,
                                       unwrap(processed[tr.tx].amount))),
                           processed)
               ELSE Ledger(accts, processed)
          [] tr.transaction_type = Resolve ->
               IF found
               THEN Ledger(set(resolve(user_account, processed[tr.tx].tx,
                                       unwrap(processed[tr.tx].amount))),
                           processed)
               ELSE Ledger(accts, processed)
          [] tr.transaction_type = Chargeback ->
               IF found
               THEN Ledger(set(chargeback(user_account, processed[tr.tx].tx,
                                          unwrap(processed[tr.tx].amount))),
                           processed)
               ELSE Ledger(accts, processed)

(***************************************************************************)
(* History variables                                                       *)
(***************************************************************************)
\* The account of client c in a map, or the account or_insert would create.
AccountOf(accts, c) == IF c \in DOMAIN accts THEN accts[c] ELSE NewAccount

ZeroSums == [deposits |-> 0, withdrawals |-> 0, disputes |-> 0, chargebacks |-> 0]

\* The sums of the amounts the records of one client moved.  b is the account
\* of the client before record tr and processed the index before it.
\*   deposits:    the deposit was added to available (account not frozen);
\*   withdrawals: the withdrawal was subtracted from available;
\*   disputes:    the dispute added the referenced amount to held;
\*   chargebacks: the chargeback removed the referenced amount from held.
Moved(s, tr, b, processed) ==
    CASE tr.transaction_type = Deposit /\ ~b.frozen ->
           [s EXCEPT !.deposits = @ + unwrap(tr.amount)]
      [] tr.transaction_type = Withdrawal
         /\ ~(unwrap(tr.amount) > b.available /\ ~b.frozen) ->
           [s EXCEPT !.withdrawals = @ + unwrap(tr.amount)]
      [] tr.transaction_type = Dispute /\ disputable(processed, tr.tx) ->
           [s EXCEPT !.disputes = @ + unwrap(processed[tr.tx].amount)]
      [] tr.transaction_type = Chargeback /\ disputable(processed, tr.tx)
         /\ contains(b.disputed_transactions, tr.tx) ->
           [s EXCEPT !.chargebacks = @ + unwrap(processed[tr.tx].amount)]
      [] OTHER -> s

\* A withdrawal the spec calls ignored: account not frozen, amount > available.
IgnoredWithdrawal(accts, tr) ==
    /\ tr.transaction_type = Withdrawal
    /\ ~AccountOf(accts, tr.client).frozen
    /\ unwrap(tr.amount) > AccountOf(accts, tr.client).available

\* Record tr ends a dispute: a Resolve or Chargeback of a tx its client has
\* under dispute.
Closes(accts, tr) ==
    /\ tr.transaction_type \in {Resolve, Chargeback}
    /\ contains(AccountOf(accts, tr.client).disputed_transactions, tr.tx)

(***************************************************************************)
(* The state machine                                                       *)
(***************************************************************************)
Init ==
    /\ accounts = <<>>
    /\ processed_transactions = <<>>
    /\ transaction = NoTransaction
    /\ before = EmptyLedger
    /\ n = 0
    /\ applied = [c \in Clients |-> ZeroSums]
    /\ solo = [c \in Clients |-> EmptyLedger]
    /\ without = [skipped |-> FALSE, ledger |-> EmptyLedger]
    /\ seen = {}
    /\ closed = {}

\* The loop body on record tr.  The actions below take the next record of the
\* input, of at most MaxLen records.
Process(tr) ==
    LET L == Ledger(accounts, processed_transactions)
        R == process_one(L, tr)
        skip == ~without.skipped /\ IgnoredWithdrawal(accounts, tr)
    IN  /\ n' = n + 1
        /\ transaction' = tr
        /\ before' = L
        /\ accounts' = R.accounts
        /\ processed_transactions' = R.processed_transactions
        /\ applied' = [applied EXCEPT ![tr.client] =
                          Moved(@, tr, AccountOf(accounts, tr.client),
                                processed_transactions)]
        /\ solo' = [solo EXCEPT ![tr.client] = process_one(@, tr)]
        /\ without' = IF skip
                      THEN [without EXCEPT !.skipped = TRUE]
                      ELSE [without EXCEPT !.ledger = process_one(@, tr)]
        /\ seen' = seen \cup {tr.client}
        /\ closed' = IF Closes(accounts, tr)
                     THEN closed \cup {<<tr.client, tr.tx>>}
                     ELSE closed

\* Deposit and Withdrawal records carry an amount and a tx no earlier
\* Deposit/Withdrawal record used.
DoDeposit ==
    /\ n < MaxLen
    /\ \E c \in Clients, t \in TxIds \ DOMAIN processed_transactions, a \in Amounts :
          Process(Transaction(Deposit, c, t, Some(a)))

DoWithdrawal ==
    /\ n < MaxLen
    /\ \E c \in Clients, t \in TxIds \ DOMAIN processed_transactions, a \in Amounts :
          Process(Transaction(Withdrawal, c, t, Some(a)))

DoDispute ==
    /\ n < MaxLen
    /\ \E c \in Clients, t \in TxIds : Process(Transaction(Dispute, c, t, None))

DoResolve ==
    /\ n < MaxLen
    /\ \E c \in Clients, t \in TxIds : Process(Transaction(Resolve, c, t, None))

DoChargeback ==
    /\ n < MaxLen
    /\ \E c \in Clients, t \in TxIds : Process(Transaction(Chargeback, c, t, None))

Next ==
    \/ DoDeposit
    \/ DoWithdrawal
    \/ DoDispute
    \/ DoResolve
    \/ DoChargeback

Spec == Init /\ [][Next]_vars

TypeOK ==
    /\ DOMAIN accounts \subseteq Clients
    /\ DOMAIN processed_transactions \subseteq TxIds
    /\ n \in 0..MaxLen

(***************************************************************************)
(* Properties.  B(c) is the account of client c before the last record,    *)
(* A(c) the account after it; an account not yet created reads as the one  *)
(* or_insert creates.                                                      *)
(***************************************************************************)
B(c) == AccountOf(before.accounts, c)
A(c) == AccountOf(accounts, c)
Last(kind) == transaction.transaction_type = kind
Elems(v) == {v[i] : i \in 1..Len(v)}
Count(v, x) == Cardinality({i \in 1..Len(v) : v[i] = x})

\* The amount recorded on the transaction the last record refers to.
OriginalAmount == unwrap(before.processed_transactions[transaction.tx].amount)

\* The last record refers to a transaction that was in the index.
Indexed == disputable(before.processed_transactions, transaction.tx)

\* The last record refers to a tx its client had under dispute.
WasDisputed == contains(B(transaction.client).disputed_transactions, transaction.tx)

\* C1 (as stated): for every account, available + held is the sum of the
\* applied deposits less the applied withdrawals less what chargebacks took
\* from held; a Dispute or a Resolve does not change it.
C1_TotalIsDepositsLessWithdrawalsLessChargebacks ==
    \A c \in DOMAIN accounts :
        total_funds(accounts[c]) =
            applied[c].deposits - applied[c].withdrawals - applied[c].chargebacks

\* C1 (amended): for every account, available + held is the applied deposits
\* less the withdrawals subtracted from available, plus the amounts Disputes
\* added to held, less the amounts chargebacks removed from held.  A Resolve
\* does not change it; a Dispute raises it by the disputed amount.
C1_TotalCountsDisputes ==
    /\ \A c \in DOMAIN accounts :
          total_funds(accounts[c]) =
              applied[c].deposits - applied[c].withdrawals
              + applied[c].disputes - applied[c].chargebacks
    /\ Last(Resolve) =>
          total_funds(A(transaction.client)) = total_funds(B(transaction.client))
    /\ (Last(Dispute) /\ Indexed) =>
          total_funds(A(transaction.client)) =
              total_funds(B(transaction.client)) + OriginalAmount

C1_Witness ==
    /\ Last(Resolve) /\ WasDisputed
    /\ applied[transaction.client].deposits > 0
    /\ applied[transaction.client].withdrawals > 0
    /\ applied[transaction.client].disputes > 0

\* C2: a Withdrawal on a frozen account leaves the account as it was.
C2_WithdrawalOnFrozenIsNoOp ==
    (Last(Withdrawal) /\ B(transaction.client).frozen) =>
        A(transaction.client) = B(transaction.client)

\* C3: no transaction id occurs twice in an account's disputed collection, and
\* a Dispute of a tx already in it leaves the account as it was.
C3_DisputedAtMostOnce ==
    /\ \A c \in DOMAIN accounts : \A t \in TxIds :
          Count(accounts[c].disputed_transactions, t) <= 1
    /\ (Last(Dispute) /\ WasDisputed) =>
          A(transaction.client) = B(transaction.client)

\* The account of client c after Dispute(t) and then Resolve(t) by c, from
\* the current state.
RoundTrip(c, t) ==
    LET L0 == Ledger(accounts, processed_transactions)
        L1 == process_one(L0, Transaction(Dispute, c, t, None))
        L2 == process_one(L1, Transaction(Resolve, c, t, None))
    IN  L2.accounts[c]

\* The cases C4 speaks of: a client, and an indexed tx the client does not
\* have under dispute.
RoundTripCases ==
    {ct \in Clients \X TxIds :
        /\ disputable(processed_transactions, ct[2])
        /\ ~contains(A(ct[1]).disputed_transactions, ct[2])}

\* C4 (as stated): Dispute(tx) then Resolve(tx) leaves available and held as
\* they were before the Dispute, and tx is not disputed afterwards.
C4_RoundTripRestoresAvailableAndHeld ==
    \A ct \in RoundTripCases :
        LET r == RoundTrip(ct[1], ct[2])
        IN  /\ r.available = A(ct[1]).available
            /\ r.held = A(ct[1]).held
            /\ ~contains(r.disputed_transactions, ct[2])

\* C4 (amended): Dispute(tx) then Resolve(tx) leaves held as it was before
\* the Dispute and available larger by the amount recorded on tx, and tx is
\* not disputed afterwards.
C4_RoundTripRestoresHeldAndCreditsAvailable ==
    \A ct \in RoundTripCases :
        LET r == RoundTrip(ct[1], ct[2])
        IN  /\ r.available =
                  A(ct[1]).available + unwrap(processed_transactions[ct[2]].amount)
            /\ r.held = A(ct[1]).held
            /\ ~contains(r.disputed_transactions, ct[2])
            /\ r.frozen = A(ct[1]).frozen

\* A round trip has just been completed on an account that holds funds and
\* has another tx under dispute, and the tx can be disputed again.
C4_Witness ==
    /\ Last(Resolve) /\ WasDisputed
    /\ <<transaction.client, transaction.tx>> \in RoundTripCases
    /\ A(transaction.client).held > 0
    /\ A(transaction.client).available > 0

\* C5: every account is the account the run over the records of its client
\* alone produces.
C5_PartitionByClient ==
    \A c \in DOMAIN accounts :
        /\ c \in DOMAIN solo[c].accounts
        /\ accounts[c] = solo[c].accounts[c]

\* C6: frozen never goes from true to false, and goes from false to true only
\* in a Chargeback by that client of a tx in its disputed collection.
C6_FrozenOnlyByChargeback ==
    \A c \in Clients :
        /\ B(c).frozen => A(c).frozen
        /\ (A(c).frozen /\ ~B(c).frozen) =>
              /\ Last(Chargeback)
              /\ transaction.client = c
              /\ WasDisputed

\* An account a Chargeback froze has since taken a Resolve that acted, and is
\* still frozen, while the other client's account is not.
C6_Witness ==
    /\ Last(Resolve) /\ WasDisputed
    /\ B(transaction.client).frozen
    /\ A(transaction.client).frozen
    /\ applied[transaction.client].chargebacks > 0
    /\ \E c \in DOMAIN accounts : ~accounts[c].frozen

\* C7: a Withdrawal larger than available on an account that is not frozen
\* leaves the account as it was, and the run with the record and the run
\* without it end in the same accounts.
C7_IgnoredWithdrawalLeavesNoTrace ==
    /\ (/\ Last(Withdrawal)
        /\ ~B(transaction.client).frozen
        /\ unwrap(transaction.amount) > B(transaction.client).available) =>
          A(transaction.client) = B(transaction.client)
    /\ without.skipped =>
          \A c \in Clients : A(c) = AccountOf(without.ledger.accounts, c)

\* C8: a Chargeback of a tx the client has under dispute removes tx from
\* disputed, lowers held (and so the total) by the amount recorded on tx,
\* leaves available alone and sets frozen.
C8_ChargebackOfDisputed ==
    (Last(Chargeback) /\ WasDisputed) =>
        LET a == A(transaction.client)
            b == B(transaction.client)
        IN  /\ Elems(a.disputed_transactions) =
                  Elems(b.disputed_transactions) \ {transaction.tx}
            /\ a.held = b.held - OriginalAmount
            /\ a.available = b.available
            /\ total_funds(a) = total_funds(b) - OriginalAmount
            /\ a.frozen

C8_Witness ==
    /\ Last(Chargeback) /\ WasDisputed
    /\ ~B(transaction.client).frozen
    /\ B(transaction.client).available > 0
    /\ Len(B(transaction.client).disputed_transactions) = 2
    /\ Len(A(transaction.client).disputed_transactions) = 1

\* C9: a Resolve or a Chargeback of a tx the client does not have under
\* dispute changes no account and leaves the index as it was.
C9_ResolveOrChargebackOfUndisputed ==
    ((Last(Resolve) \/ Last(Chargeback)) /\ ~WasDisputed) =>
        /\ \A c \in Clients : A(c) = B(c)
        /\ DOMAIN before.accounts \subseteq DOMAIN accounts
        /\ processed_transactions = before.processed_transactions

\* A Chargeback of an indexed tx that is not under dispute, by a client that
\* has another tx under dispute.
C9_Witness ==
    /\ Last(Chargeback) /\ ~WasDisputed /\ Indexed
    /\ B(transaction.client).disputed_transactions # <<>>
    /\ B(transaction.client).available > 0

\* C10: a Dispute of an indexed tx the client does not have under dispute
\* appends tx to disputed, raises held by the amount recorded on tx, and
\* leaves available and frozen alone.
C10_DisputeOfIndexed ==
    (Last(Dispute) /\ Indexed /\ ~WasDisputed) =>
        LET a == A(transaction.client)
            b == B(transaction.client)
        IN  /\ a.disputed_transactions =
                  Append(b.disputed_transactions, transaction.tx)
            /\ a.held = b.held + OriginalAmount
            /\ a.available = b.available
            /\ a.frozen = b.frozen

C10_Witness ==
    /\ Last(Dispute) /\ Indexed /\ ~WasDisputed
    /\ before.processed_transactions[transaction.tx].transaction_type = Withdrawal
    /\ B(transaction.client).available > 0
    /\ B(transaction.client).disputed_transactions # <<>>

\* C11: a Resolve of a tx the client has under dispute removes tx from
\* disputed, lowers held by the amount recorded on tx and raises available by
\* the same amount; available + held and frozen stay as they were.
C11_ResolveOfDisputed ==
    (Last(Resolve) /\ WasDisputed) =>
        LET a == A(transaction.client)
            b == B(transaction.client)
        IN  /\ Elems(a.disputed_transactions) =
                  Elems(b.disputed_transactions) \ {transaction.tx}
            /\ a.held = b.held - OriginalAmount
            /\ a.available = b.available + OriginalAmount
            /\ total_funds(a) = total_funds(b)
            /\ a.frozen = b.frozen

\* A Resolve of one of two disputed transactions, after a withdrawal.
C11_Witness ==
    /\ Last(Resolve) /\ WasDisputed
    /\ Len(B(transaction.client).disputed_transactions) = 2
    /\ Len(A(transaction.client).disputed_transactions) = 1
    /\ applied[transaction.client].withdrawals > 0

\* C12: a Dispute of a tx that is not in the index leaves the client's
\* account and the index as they were.
C12_DisputeOfUnknown ==
    (Last(Dispute) /\ transaction.tx \notin DOMAIN before.processed_transactions) =>
        /\ A(transaction.client) = B(transaction.client)
        /\ processed_transactions = before.processed_transactions

\* A Dispute of an unknown tx by a client that holds funds and has the other
\* tx under dispute.
C12_Witness ==
    /\ Last(Dispute)
    /\ transaction.tx \notin DOMAIN before.processed_transactions
    /\ B(transaction.client).available > 0
    /\ B(transaction.client).disputed_transactions # <<>>

\* C13: a Deposit on a frozen account leaves the account as it was.
C13_DepositOnFrozenIsNoOp ==
    (Last(Deposit) /\ B(transaction.client).frozen) =>
        A(transaction.client) = B(transaction.client)

\* A Deposit on a frozen account that holds funds.
C13_Witness ==
    /\ Last(Deposit)
    /\ B(transaction.client).frozen
    /\ B(transaction.client).available > 0

\* The values the spec gives a newly created account.
InitialAccount ==
    [disputed_transactions |-> <<>>, frozen |-> FALSE, held |-> 0, available |-> 0]

\* The last record is the first to name its client.
FirstReference == n > 0 /\ transaction.client \notin DOMAIN before.accounts

\* C14: the account mapping has an entry for exactly the clients the consumed
\* records name (none for the empty input), also for a client whose records
\* were all no-ops; and an account is created with available 0, held 0, not
\* frozen, nothing disputed, so that after the record that creates it it is
\* that record's effect on these values.
C14_OneAccountPerClientSeen ==
    /\ DOMAIN accounts = seen
    /\ n = 0 => accounts = <<>>
    /\ FirstReference =>
          LET a == accounts[transaction.client]
          IN  CASE Last(Deposit) ->
                     a = [InitialAccount EXCEPT !.available = unwrap(transaction.amount)]
                [] Last(Dispute) /\ Indexed ->
                     a = [InitialAccount EXCEPT
                             !.disputed_transactions = <<transaction.tx>>,
                             !.held = OriginalAmount]
                [] OTHER -> a = InitialAccount

\* A Resolve is the first record to name its client, while the other client
\* already has an account with funds: the new account exists, untouched.
C14_Witness ==
    /\ FirstReference
    /\ Last(Resolve)
    /\ seen = Clients
    /\ \E c \in DOMAIN before.accounts : before.accounts[c].available > 0

\* C15: a tx that is a key of the index stays a key, and a Dispute of a tx
\* whose dispute by that client was resolved or charged back appends tx to
\* disputed again and raises held by the amount recorded on tx.
C15_IndexAppendOnlyAndRedispute ==
    /\ DOMAIN before.processed_transactions \subseteq DOMAIN processed_transactions
    /\ (Last(Dispute) /\ <<transaction.client, transaction.tx>> \in closed) =>
          LET a == A(transaction.client)
              b == B(transaction.client)
          IN  /\ transaction.tx \in DOMAIN processed_transactions
              /\ a.disputed_transactions =
                    Append(b.disputed_transactions, transaction.tx)
              /\ a.held = b.held + OriginalAmount

\* A tx is disputed again after its dispute was closed, with both ids indexed.
C15_Witness ==
    /\ Last(Dispute)
    /\ <<transaction.client, transaction.tx>> \in closed
    /\ ~WasDisputed
    /\ DOMAIN processed_transactions = TxIds
    /\ A(transaction.client).held > 0

\* The last record is a Deposit or Withdrawal the spec calls a no-op: the
\* account is frozen, or a withdrawal exceeds available.
SkippedRecord ==
    \/ Last(Deposit) /\ B(transaction.client).frozen
    \/ /\ Last(Withdrawal)
       /\ \/ B(transaction.client).frozen
          \/ unwrap(transaction.amount) > B(transaction.client).available

\* C16: a Deposit or Withdrawal that is skipped as a no-op is not recorded in
\* the index, so a later Dispute of its tx is a no-op.
C16_SkippedRecordNotIndexed ==
    SkippedRecord => processed_transactions = before.processed_transactions

\* C17: on a frozen account a Dispute of an indexed tx still appends it and
\* raises held, a Resolve or Chargeback of a disputed tx still removes it and
\* lowers held, a Resolve also raises available; frozen stays true.
C17_FrozenAccountStillDisputes ==
    B(transaction.client).frozen =>
        LET a == A(transaction.client)
            b == B(transaction.client)
        IN  /\ a.frozen
            /\ (Last(Dispute) /\ Indexed) =>
                  /\ a.disputed_transactions =
                        Append(b.disputed_transactions, transaction.tx)
                  /\ a.held = b.held + OriginalAmount
                  /\ a.available = b.available
            /\ ((Last(Resolve) \/ Last(Chargeback)) /\ WasDisputed) =>
                  /\ ~contains(a.disputed_transactions, transaction.tx)
                  /\ a.held = b.held - OriginalAmount
                  /\ a.available =
                        IF Last(Resolve) THEN b.available + OriginalAmount
                        ELSE b.available

\* A frozen account resolves a dispute that was opened while it was frozen.
C17_Witness ==
    /\ B(transaction.client).frozen
    /\ Last(Resolve) /\ WasDisputed
    /\ A(transaction.client).available > B(transaction.client).available

RECURSIVE SumAmounts(_, _)
\* The sum of the amounts the index records for the ids in S.
SumAmounts(S, processed) ==
    IF S = {} THEN 0
    ELSE LET t == CHOOSE x \in S : TRUE
         IN  unwrap(processed[t].amount) + SumAmounts(S \ {t}, processed)

\* C18: for every account, held is the sum of the amounts recorded on the
\* distinct transactions in its disputed collection (0 when it is empty).
C18_HeldIsSumOfDisputed ==
    \A c \in DOMAIN accounts :
        accounts[c].held =
            SumAmounts(Elems(accounts[c].disputed_transactions),
                       processed_transactions)

\* C19: held is never negative, for any account.
C19_HeldNeverNegative ==
    \A c \in DOMAIN accounts : accounts[c].held >= 0

\* A tx disputed twice by one client has been resolved, and both clients have
\* sent records.
C19_Witness ==
    /\ Last(Resolve) /\ WasDisputed
    /\ Count(B(transaction.client).disputed_transactions, transaction.tx) = 2
    /\ seen = Clients

\* C20: available is never negative, for any account.
C20_AvailableNeverNegative ==
    \A c \in DOMAIN accounts : accounts[c].available >= 0

====
